---------------------------- MODULE Spec2Model ----------------------------
(***************************************************************************)
(* Model of rembg/sessions/sam.py: the prompt-to-mask pipeline of          *)
(* SamSession.predict and its helpers get_preprocess_shape, apply_coords,  *)
(* get_input_points and transform_masks.                                   *)
(*                                                                         *)
(* Python floats are IEEE-754 binary64 and numpy float32 is binary32.  A   *)
(* float is modelled exactly, as sgn * bits * 2^exp with the significand   *)
(* held as a sequence of bits (most significant first), and every          *)
(* operation is the exact result rounded to nearest, ties to even.  The    *)
(* magnitudes the model reaches are far from overflow and underflow.       *)
(***************************************************************************)
EXTENDS Integers, Sequences, FiniteSets

VARIABLES
    pc,            \* position of the call in progress
    prompt,        \* kwargs["sam_prompt"]
    img,           \* [h, w]: cv_image.shape[:2] of the input image
    stub,          \* what the decoder and the mask warps may return
    calls,         \* the external calls made so far, in order
    transform_matrix,
    input_points,
    input_labels,
    onnx_coord,
    onnx_label,
    padded,        \* the array object built by the padding, as it is now
    decoder_inputs,
    masks,
    result,        \* the returned mask, or NoMask
    error,         \* the exception raised, or "none"
    shape_args,    \* arguments of a get_preprocess_shape call
    shape_res      \* its return value

vars == <<pc, prompt, img, stub, calls, transform_matrix, input_points,
          input_labels, onnx_coord, onnx_label, padded, decoder_inputs, masks,
          result, error, shape_args, shape_res>>

-----------------------------------------------------------------------------
(* Bounds of the model                                                     *)

MaxMarks == 2      \* marks in a list of valid marks

MaxDim == 2        \* height and width of the images of Spec

MaxChan == 2       \* masks of one batch of a decoder output

MaxPixels == 2     \* pixels of the images of SpecMask

MaxH == 39         \* height of the images of SpecGeom

MaxW == 2          \* width of the images of SpecGeom

MaxOld == 22       \* oldh and oldw of SpecShape

MaxLong == 15      \* long_side_length of SpecShape

-----------------------------------------------------------------------------
(* Natural numbers as bit sequences, most significant bit first.  The      *)
(* arithmetic works on chunks of bits small enough for machine integers.   *)

Zeros(n) == [i \in 1..n |-> 0]

MaxOf(a, b) == IF a >= b THEN a ELSE b

MinOf(a, b) == IF a <= b THEN a ELSE b

PadTo(b, n) == Zeros(n - Len(b)) \o b

\* the number of bits of n, for 0 <= n < 2^30
BitLen(n) == CHOOSE k \in 0..30 : n < 2^k /\ (k = 0 \/ n >= 2^(k - 1))

BitsOf(n) == LET len == BitLen(n)
             IN  [i \in 1..len |-> (n \div 2^(len - i)) % 2]

\* the value of at most 30 bits
RECURSIVE ValOf(_)
ValOf(b) ==
    IF Len(b) = 0 THEN 0
    ELSE IF Len(b) = 1 THEN b[1]
    ELSE LET h == Len(b) \div 2
         IN  ValOf(SubSeq(b, 1, h)) * 2^(Len(b) - h)
             + ValOf(SubSeq(b, h + 1, Len(b)))

Front(b, k) == SubSeq(b, 1, Len(b) - k)

Last(b, k) == SubSeq(b, Len(b) - k + 1, Len(b))

\* a + b + c for a and b of one length, 24 bits at a time from the low end
RECURSIVE AddChunks(_, _, _)
AddChunks(a, b, c) ==
    IF Len(a) = 0 THEN BitsOf(c)
    ELSE LET k == MinOf(24, Len(a))
             v == ValOf(Last(a, k)) + ValOf(Last(b, k)) + c
         IN  AddChunks(Front(a, k), Front(b, k), v \div 2^k)
             \o PadTo(BitsOf(v % 2^k), k)

AddBits(a, b) ==
    LET n == MaxOf(Len(a), Len(b))
    IN  AddChunks(PadTo(a, n), PadTo(b, n), 0)

\* a * m + c for m < 2^12, 12 bits of a at a time from the low end
RECURSIVE MulSmall(_, _, _)
MulSmall(a, m, c) ==
    IF Len(a) = 0 THEN BitsOf(c)
    ELSE LET k == MinOf(12, Len(a))
             v == ValOf(Last(a, k)) * m + c
         IN  MulSmall(Front(a, k), m, v \div 2^k) \o PadTo(BitsOf(v % 2^k), k)

\* a * b, 12 bits of b at a time from the high end
RECURSIVE MulChunks(_, _)
MulChunks(a, b) ==
    IF Len(b) = 0 THEN <<>>
    ELSE LET k == MinOf(12, Len(b))
         IN  AddBits(MulChunks(a, Front(b, k)) \o Zeros(k),
                     MulSmall(a, ValOf(Last(b, k)), 0))

MulBits(a, b) == IF Len(a) >= Len(b) THEN MulChunks(a, b) ELSE MulChunks(b, a)

\* -1, 0 or 1 as a < b, a = b, a > b, for sequences of the same length
CmpBits(a, b) ==
    LET d == {i \in 1..Len(a) : a[i] # b[i]}
    IN  IF d = {} THEN 0
        ELSE LET k == CHOOSE i \in d : \A j \in d : i <= j
             IN  IF a[k] < b[k] THEN -1 ELSE 1

-----------------------------------------------------------------------------
(* Exact dyadic rationals sgn * bits * 2^exp, kept in a canonical form:    *)
(* bits starts and ends with 1, and zero is <<>> with exp 0 and sgn 1.     *)

Norm(sgn, bits, exp) ==
    LET ones == {i \in 1..Len(bits) : bits[i] = 1}
    IN  IF ones = {} THEN [sgn |-> 1, bits |-> <<>>, exp |-> 0]
        ELSE LET hi == CHOOSE i \in ones : \A j \in ones : i <= j
                 lo == CHOOSE i \in ones : \A j \in ones : i >= j
             IN  [sgn |-> sgn, bits |-> SubSeq(bits, hi, lo),
                  exp |-> exp + (Len(bits) - lo)]

FromInt(n) == IF n >= 0 THEN Norm(1, BitsOf(n), 0) ELSE Norm(-1, BitsOf(-n), 0)

Half == [sgn |-> 1, bits |-> <<1>>, exp |-> -1]

DMul(x, y) == Norm(x.sgn * y.sgn, MulBits(x.bits, y.bits), x.exp + y.exp)

\* the significand of x in units of 2^e, for e <= x.exp
Aligned(x, e) == x.bits \o Zeros(x.exp - e)

\* sum of two dyadics of the same sign
DAdd(x, y) ==
    LET e == MinOf(x.exp, y.exp)
    IN  Norm(IF x.bits = <<>> THEN y.sgn ELSE x.sgn,
             AddBits(Aligned(x, e), Aligned(y, e)), e)

\* -1, 0 or 1 as |x| < |y|, |x| = |y|, |x| > |y|
CmpAbs(x, y) ==
    LET e == MinOf(x.exp, y.exp)
        a == Aligned(x, e)
        b == Aligned(y, e)
        n == MaxOf(Len(a), Len(b))
    IN  CmpBits(PadTo(a, n), PadTo(b, n))

DCmp(x, y) ==
    LET sx == IF x.bits = <<>> THEN 0 ELSE x.sgn
        sy == IF y.bits = <<>> THEN 0 ELSE y.sgn
    IN  IF sx # sy THEN (IF sx < sy THEN -1 ELSE 1)
        ELSE IF sx = 0 THEN 0
        ELSE sx * CmpAbs(x, y)

DLess(x, y) == DCmp(x, y) < 0

DLeq(x, y) == DCmp(x, y) <= 0

\* x rounded to p significant bits, to nearest, ties to even
Round(x, p) ==
    LET n == Len(x.bits)
    IN  IF n <= p THEN x
        ELSE LET keep == SubSeq(x.bits, 1, p)
                 up   == IF n = p + 1 THEN keep[p] = 1
                         ELSE x.bits[p + 1] = 1
             IN  Norm(x.sgn, IF up THEN AddBits(keep, <<1>>) ELSE keep,
                      x.exp + (n - p))

F64(x) == Round(x, 53)

F32(x) == Round(x, 24)

\* 8 * n further quotient bits of r / b, and the remainder left
RECURSIVE DivStep(_, _, _)
DivStep(r, b, n) ==
    IF n = 0 THEN [q |-> <<>>, r |-> r]
    ELSE LET rest == DivStep((256 * r) % b, b, n - 1)
         IN  [q |-> PadTo(BitsOf((256 * r) \div b), 8) \o rest.q, r |-> rest.r]

\* float(a) / float(b) for integers a >= 0, b > 0: the quotient to more than
\* 54 bits, a sticky bit for a remainder, then one rounding
FDiv(a, b) ==
    LET n == 8 * (7 + (BitLen(b) + 7) \div 8)
        d == DivStep(a % b, b, n \div 8)
        q == BitsOf(a \div b) \o d.q
    IN  F64(IF d.r = 0 THEN Norm(1, q, -n) ELSE Norm(1, q \o <<1>>, -n - 1))

FMul(x, y) == F64(DMul(x, y))

FAdd(x, y) == F64(DAdd(x, y))

\* int(x) for x >= 0
Trunc(x) ==
    LET n == Len(x.bits)
    IN  IF x.exp >= 0 THEN ValOf(x.bits) * 2^x.exp
        ELSE IF n <= -x.exp THEN 0
        ELSE ValOf(SubSeq(x.bits, 1, n + x.exp))

-----------------------------------------------------------------------------
(* get_preprocess_shape                                                    *)

get_preprocess_shape(oldh, oldw, long_side_length) ==
    LET scale == FDiv(long_side_length, MaxOf(oldh, oldw))
        newh  == FMul(FromInt(oldh), scale)
        neww  == FMul(FromInt(oldw), scale)
    IN  <<Trunc(FAdd(newh, Half)), Trunc(FAdd(neww, Half))>>


-----------------------------------------------------------------------------
(* Prompts.  A JSON value of the prompt is a record of a fixed shape: a    *)
(* mark is an object or not, its "type" is a string (or "#absent", or      *)
(* "#number" for a value that is no string), its "label" and "data" carry  *)
(* their JSON kind.                                                        *)

Lbl(k, v) == [k |-> k, v |-> v]

Num(v) == [k |-> "num", v |-> v]

Arr(items) == [k |-> "array", items |-> items]

NoData == [k |-> "absent", items |-> <<>>]

Mark(type, label, data) ==
    [obj |-> TRUE, type |-> type, label |-> label, data |-> data]

Nums(s) == Arr([i \in 1..Len(s) |-> Num(s[i])])

PointA == Mark("point", Lbl("int", 1), Nums(<<1, 2>>))

PointB == Mark("point", Lbl("int", 0), Nums(<<3, 1>>))

RectA == Mark("rectangle", Lbl("int", 0), Nums(<<1, 1, 2, 3>>))

\* corners given bottom-right first, and a label of its own
RectB == Mark("rectangle", Lbl("int", 5), Nums(<<3, 2, 1, 0>>))

ValidMarks == {PointA, PointB, RectA, RectB}

MalformedMarks ==
    { [obj |-> FALSE, type |-> "#absent", label |-> Lbl("absent", 0),
       data |-> NoData],
      Mark("#absent", Lbl("int", 1), Nums(<<1, 2>>)),
      Mark("#number", Lbl("int", 1), Nums(<<1, 2>>)),
      Mark("circle", Lbl("int", 1), Nums(<<1, 2>>)),
      Mark("point", Lbl("absent", 0), Nums(<<1, 2>>)),
      Mark("point", Lbl("string", 0), Nums(<<1, 2>>)),
      Mark("point", Lbl("int", 1), NoData),
      Mark("point", Lbl("int", 1), [k |-> "string", items |-> <<>>]),
      Mark("point", Lbl("int", 1), Arr(<<Num(1), [k |-> "string", v |-> 0]>>)),
      Mark("point", Lbl("int", 1), Nums(<<1>>)),
      Mark("point", Lbl("int", 1), Nums(<<1, 2, 3>>)),
      Mark("rectangle", Lbl("int", 0), Nums(<<1, 1>>)),
      Mark("rectangle", Lbl("int", 0), Nums(<<1, 1, 2>>)),
      Mark("rectangle", Lbl("int", 0), Nums(<<1, 1, 2, 3, 4>>)),
      Mark("rectangle", Lbl("int", 0), NoData) }

Array(items) == [arr |-> TRUE, items |-> items]

\* the default of kwargs.get("sam_prompt", "{}"): a string, no array
DefaultPrompt == [arr |-> FALSE, items |-> <<>>]

\* what the prompt is required to be: an ordered sequence of point and
\* rectangle records with a numeric label and data of the matching arity
WellFormedMark(m) ==
    /\ m.obj
    /\ m.type \in {"point", "rectangle"}
    /\ m.label.k \in {"int", "float"}
    /\ m.data.k = "array"
    /\ \A i \in 1..Len(m.data.items) : m.data.items[i].k = "num"
    /\ Len(m.data.items) = IF m.type = "point" THEN 2 ELSE 4

WellFormed(p) == p.arr /\ \A i \in 1..Len(p.items) : WellFormedMark(p.items[i])

Malformed(p) == ~WellFormed(p)

\* validate(instance=prompt, schema=schema): the schema names no required
\* property, no set of types and no length of data
SchemaAcceptsMark(m) ==
    /\ m.obj
    /\ m.type # "#number"
    /\ m.label.k \in {"int", "absent"}
    /\ m.data.k \in {"array", "absent"}
    /\ \A i \in 1..Len(m.data.items) : m.data.items[i].k = "num"

SchemaAccepts(p) ==
    p.arr /\ \A i \in 1..Len(p.items) : SchemaAcceptsMark(p.items[i])

-----------------------------------------------------------------------------
(* get_input_points: the loop over the marks.  A subscript of a missing    *)
(* key or index raises and ends the loop.                                  *)

Values(data) == [i \in 1..Len(data.items) |-> data.items[i].v]

\* lines 49-50: the labels of the two corners of a rectangle
RectangleLabelsSwapped == <<3, 2>>

RectangleLabels == <<2, 3>>

\* the marks from i on, appended to the lists built so far
RECURSIVE MarksFrom(_, _, _, _)
MarksFrom(marks, i, points, labels) ==
    IF i > Len(marks)
    THEN [error |-> "none", points |-> points, labels |-> labels]
    ELSE LET mark == marks[i]
             raise(e) == [error |-> e, points |-> points, labels |-> labels]
         IN  IF mark.type = "#absent" THEN raise("KeyError")
             ELSE IF mark.type = "point"
             THEN IF mark.data.k = "absent" \/ mark.label.k = "absent"
                  THEN raise("KeyError")
                  ELSE MarksFrom(marks, i + 1,
                                 Append(points, Values(mark.data)),
                                 Append(labels, mark.label.v))
             ELSE IF mark.type = "rectangle"
             THEN IF mark.data.k = "absent" THEN raise("KeyError")
                  ELSE IF Len(mark.data.items) < 4 THEN raise("IndexError")
                  ELSE LET d == Values(mark.data)
                       IN  MarksFrom(marks, i + 1,
                                     points \o <<<<d[1], d[2]>>, <<d[3], d[4]>>>>,
                                     labels \o RectangleLabels)
             ELSE MarksFrom(marks, i + 1, points, labels)

\* np.array(points): an empty list gives shape (0,), rows of one length k
\* give shape (n, k), rows of several lengths give no rectangular array
ArrayOf(rows) ==
    LET lens == {Len(rows[i]) : i \in 1..Len(rows)}
    IN  IF rows = <<>> THEN [ndim |-> 1, cols |-> 0, rows |-> rows]
        ELSE IF Cardinality(lens) = 1
        THEN [ndim |-> 2, cols |-> CHOOSE k \in lens : TRUE, rows |-> rows]
        ELSE [ndim |-> 0, cols |-> 0, rows |-> rows]

get_input_points(p) ==
    LET r == MarksFrom(p.items, 1, <<>>, <<>>)
    IN  [error |-> r.error, points |-> ArrayOf(r.points), labels |-> r.labels]

-----------------------------------------------------------------------------
(* Arrays of floats and the point transforms                               *)

Zero == FromInt(0)

One == FromInt(1)

target_size == 1024

input_size == <<684, 1024>>

\* original_size unpacked as (width, height)
apply_coords_swapped(coords, original_size, target_length) ==
    LET old_w == original_size[1]
        old_h == original_size[2]
        new   == get_preprocess_shape(original_size[1], original_size[2],
                                      target_length)
        fx    == FDiv(new[2], old_w)
        fy    == FDiv(new[1], old_h)
        out   == [b \in 1..Len(coords) |->
                    [i \in 1..Len(coords[b]) |->
                        <<FMul(coords[b][i][1], fx), FMul(coords[b][i][2], fy)>>]]
    IN  [coords |-> out, input |-> coords]

\* apply_coords returns a scaled copy; input is the argument as the call
\* leaves it (deepcopy: untouched)
apply_coords(coords, original_size, target_length) ==
    LET old_h == original_size[1]
        old_w == original_size[2]
        new   == get_preprocess_shape(original_size[1], original_size[2],
                                      target_length)
        fx    == FDiv(new[2], old_w)
        fy    == FDiv(new[1], old_h)
        out   == [b \in 1..Len(coords) |->
                    [i \in 1..Len(coords[b]) |->
                        <<FMul(coords[b][i][1], fx), FMul(coords[b][i][2], fy)>>]]
    IN  [coords |-> out, input |-> coords]

ScaleMatrix(scale) == << <<scale, Zero, Zero>>, <<Zero, scale, Zero>>,
                         <<Zero, Zero, One>> >>

Transpose(m) == [i \in 1..3 |-> [j \in 1..3 |-> m[j][i]]]

\* one row of np.matmul(a, b): the sum over k of row[k] * b[k][j]
MatMulRow(row, b) ==
    [j \in 1..3 |-> FAdd(FAdd(FMul(row[1], b[1][j]), FMul(row[2], b[2][j])),
                         FMul(row[3], b[3][j]))]

\* lines 218-226: the homogeneous 1 appended, the product with the
\* transpose, the first two columns kept
AffinePointsOf(coord, matrix) ==
    [b \in 1..Len(coord) |->
        [i \in 1..Len(coord[b]) |->
            LET r == MatMulRow(coord[b][i] \o <<One>>, Transpose(matrix))
            IN  <<F32(r[1]), F32(r[2])>>]]

\* a division that raises nothing
DivisionNeverRaises(h, w) == FALSE

\* int / int of lines 171-172 raises ZeroDivisionError on a zero divisor
DivisionRaises(h, w) == w = 0 \/ h = 0

\* IEEE division: a zero divisor gives an infinity, held as an empty
\* significand with exponent 1
Quotient(a, b) == IF b = 0 THEN [sgn |-> 1, bits |-> <<>>, exp |-> 1]
                  ELSE FDiv(a, b)

\* the larger of the two scales: the image covers the canvas
FitScaleOutside(h, w) ==
    LET scale_x == Quotient(input_size[2], w)
        scale_y == Quotient(input_size[1], h)
    IN  IF DLess(scale_x, scale_y) THEN scale_y ELSE scale_x

\* scale = min(scale_x, scale_y): the first of the two unless the second
\* is smaller
FitScale(h, w) ==
    LET scale_x == Quotient(input_size[2], w)
        scale_y == Quotient(input_size[1], h)
    IN  IF DLess(scale_y, scale_x) THEN scale_y ELSE scale_x

-----------------------------------------------------------------------------
(* Masks                                                                   *)

Pixels(h, w) == (1..h) \X (1..w)

NoMask == [h |-> 0, w |-> 0, px |-> <<>>]

MaskValues == {-1, 0, 1}

\* Image.convert("L") of an RGB pixel
Luma(rgb) == (rgb[1] * 19595 + rgb[2] * 38470 + rgb[3] * 7471 + 32768) \div 65536

\* every channel writing the whole mask: the last one decides
RECURSIVE PaintOver(_, _, _)
PaintOver(mask, channels, c) ==
    IF c > Len(channels) THEN mask
    ELSE PaintOver([p \in DOMAIN mask |->
                       IF channels[c].px[p] > 0 THEN <<255, 255, 255>>
                       ELSE <<0, 0, 0>>],
                   channels, c + 1)

\* the loop of lines 245-246 over the channels from c on
RECURSIVE Paint(_, _, _)
Paint(mask, channels, c) ==
    IF c > Len(channels) THEN mask
    ELSE Paint([p \in DOMAIN mask |->
                   IF channels[c].px[p] > 0 THEN <<255, 255, 255>> ELSE mask[p]],
               channels, c + 1)

\* lines 244-248
composite(stack) ==
    LET h    == stack[1][1].h
        w    == stack[1][1].w
        mask == Paint([p \in Pixels(h, w) |-> <<0, 0, 0>>], stack[1], 1)
    IN  [h |-> h, w |-> w, px |-> [p \in Pixels(h, w) |-> Luma(mask[p])]]

-----------------------------------------------------------------------------
(* The call log                                                            *)

NoMatrix == <<>>

MatArg(inv, m) == [inv |-> inv, m |-> m]

Call(op) == [op |-> op, M |-> MatArg(FALSE, NoMatrix), dsize |-> <<0, 0>>]

\* cv2.warpAffine(src, M[:2], dsize); inv says that M is np.linalg.inv(m)
Warp(op, inv, m, dsize) == [op |-> op, M |-> MatArg(inv, m), dsize |-> dsize]

Raise(e) == pc' = "raised" /\ error' = e

-----------------------------------------------------------------------------
(* SamSession.predict, one action per step                                 *)

\* lines 145-161
ValidatePrompt ==
    /\ pc = "validate"
    /\ calls' = Append(calls, Call("validate"))
    /\ IF SchemaAccepts(prompt)
       THEN pc' = "scale" /\ error' = error
       ELSE Raise("ValidationError")
    /\ UNCHANGED <<prompt, img, stub, transform_matrix, input_points,
                   input_labels, onnx_coord, onnx_label, padded,
                   decoder_inputs, masks, result, shape_args, shape_res>>

\* lines 163-181
ComputeScale ==
    /\ pc = "scale"
    /\ IF DivisionRaises(img.h, img.w)
       THEN Raise("ZeroDivisionError") /\ transform_matrix' = transform_matrix
       ELSE /\ transform_matrix' = ScaleMatrix(FitScale(img.h, img.w))
            /\ pc' = "warp_image"
            /\ error' = error
    /\ UNCHANGED <<prompt, img, stub, calls, input_points, input_labels,
                   onnx_coord, onnx_label, padded, decoder_inputs, masks,
                   result, shape_args, shape_res>>

\* lines 183-188
WarpImage ==
    /\ pc = "warp_image"
    /\ calls' = Append(calls, Warp("warp_image", FALSE, transform_matrix,
                                   <<input_size[2], input_size[1]>>))
    /\ pc' = "encode"
    /\ UNCHANGED <<prompt, img, stub, transform_matrix, input_points,
                   input_labels, onnx_coord, onnx_label, padded,
                   decoder_inputs, masks, result, error, shape_args, shape_res>>

\* a failure of the encoder swallowed
AfterEncodeSwallowed(ok) == "get_input_points"

\* where predict goes after self.encoder.run
AfterEncode(ok) == IF ok THEN "get_input_points" ELSE "raised"

\* lines 190-203: the encoder returns an embedding or raises
Encode ==
    /\ pc = "encode"
    /\ calls' = Append(calls, Call("encode"))
    /\ \E ok \in BOOLEAN :
          /\ pc' = AfterEncode(ok)
          /\ error' = IF ok THEN error ELSE "InferenceError"
    /\ UNCHANGED <<prompt, img, stub, transform_matrix, input_points,
                   input_labels, onnx_coord, onnx_label, padded,
                   decoder_inputs, masks, result, shape_args, shape_res>>

\* line 207.  Rows of several lengths: np.array raises ValueError, or (an
\* older numpy) builds a one-dimensional array of objects
GetInputPoints ==
    /\ pc = "get_input_points"
    /\ calls' = Append(calls, Call("get_input_points"))
    /\ LET r == get_input_points(prompt)
       IN  IF r.error # "none"
           THEN Raise(r.error) /\ UNCHANGED <<input_points, input_labels>>
           ELSE \E legacy \in BOOLEAN :
                   IF r.points.ndim = 0 /\ ~legacy
                   THEN Raise("ValueError")
                        /\ UNCHANGED <<input_points, input_labels>>
                   ELSE /\ input_points' =
                              IF r.points.ndim = 0
                              THEN [r.points EXCEPT !.ndim = 1]
                              ELSE r.points
                        /\ input_labels' = r.labels
                        /\ pc' = "pad"
                        /\ error' = error
    /\ UNCHANGED <<prompt, img, stub, transform_matrix, onnx_coord, onnx_label,
                   padded, decoder_inputs, masks, result, shape_args, shape_res>>

\* the padding point put first
PadCoordFirst(points) ==
    << << <<Zero, Zero>> >> \o
       [i \in 1..Len(points.rows) |->
           <<FromInt(points.rows[i][1]), FromInt(points.rows[i][2])>>] >>

\* np.concatenate([input_points, [[0.0, 0.0]]], axis=0)[None, :, :]
PadCoord(points) ==
    << [i \in 1..Len(points.rows) |->
           <<FromInt(points.rows[i][1]), FromInt(points.rows[i][2])>>]
       \o << <<Zero, Zero>> >> >>

\* np.concatenate([input_labels, [-1]], axis=0)[None, :].astype(np.float32)
PadLabel(labels) ==
    << [i \in 1..Len(labels) |-> F32(FromInt(labels[i]))]
       \o <<F32(FromInt(-1))>> >>

\* lines 208-213: concatenate raises ValueError unless input_points has two
\* dimensions and two columns
Pad ==
    /\ pc = "pad"
    /\ IF input_points.ndim # 2 \/ input_points.cols # 2
       THEN Raise("ValueError") /\ UNCHANGED <<onnx_coord, onnx_label, padded>>
       ELSE /\ onnx_coord' = PadCoord(input_points)
            /\ padded' = PadCoord(input_points)
            /\ onnx_label' = PadLabel(input_labels)
            /\ pc' = "apply_coords"
            /\ error' = error
    /\ UNCHANGED <<prompt, img, stub, calls, transform_matrix, input_points,
                   input_labels, decoder_inputs, masks, result, shape_args,
                   shape_res>>

\* lines 214-216
ApplyCoords ==
    /\ pc = "apply_coords"
    /\ calls' = Append(calls, Call("apply_coords"))
    /\ LET r == apply_coords(onnx_coord, input_size, target_size)
       IN  /\ onnx_coord' = [b \in 1..Len(r.coords) |->
                              [i \in 1..Len(r.coords[b]) |->
                                  <<F32(r.coords[b][i][1]),
                                    F32(r.coords[b][i][2])>>]]
           /\ padded' = r.input
    /\ pc' = "affine"
    /\ UNCHANGED <<prompt, img, stub, transform_matrix, input_points,
                   input_labels, onnx_label, decoder_inputs, masks, result,
                   error, shape_args, shape_res>>

\* lines 218-226
AffinePoints ==
    /\ pc = "affine"
    /\ calls' = Append(calls, Warp("matmul", FALSE, transform_matrix, <<0, 0>>))
    /\ onnx_coord' = AffinePointsOf(onnx_coord, transform_matrix)
    /\ pc' = "decode"
    /\ UNCHANGED <<prompt, img, stub, transform_matrix, input_points,
                   input_labels, onnx_label, padded, decoder_inputs, masks,
                   result, error, shape_args, shape_res>>

\* the shapes (batches, channels) of the mask stacks a decoder returns
StackShapes(family) ==
    IF family = "any" THEN ({1} \X (1..MaxChan)) \cup {<<2, MaxChan>>}
    ELSE {<<1, 1>>}

RawMask == [h |-> 0, w |-> 0, px |-> <<>>]

\* where predict goes after self.decoder.run
AfterDecode(ok) == IF ok THEN "transform_masks" ELSE "raised"

\* lines 228-240: the decoder returns a stack of masks or raises
Decode ==
    /\ pc = "decode"
    /\ calls' = Append(calls, Call("decode"))
    /\ decoder_inputs' = [point_coords |-> onnx_coord,
                          point_labels |-> onnx_label,
                          orig_im_size |-> input_size]
    /\ \E ok \in BOOLEAN :
          /\ pc' = AfterDecode(ok)
          /\ error' = IF ok THEN error ELSE "InferenceError"
          /\ IF ok
             THEN \E sh \in StackShapes(stub) :
                     masks' = [b \in 1..sh[1] |-> [c \in 1..sh[2] |-> RawMask]]
             ELSE masks' = masks
    /\ UNCHANGED <<prompt, img, stub, transform_matrix, input_points,
                   input_labels, onnx_coord, onnx_label, padded, result,
                   shape_args, shape_res>>

\* transform_masks: one warpAffine per batch and mask, each to
\* dsize = (original_size[1], original_size[0])
transform_masks(stack, original_size, matrix) ==
    [b \in 1..Len(stack) |->
        [c \in 1..Len(stack[b]) |->
            Warp("warp_mask", matrix.inv, matrix.m,
                 <<original_size[2], original_size[1]>>)]]

RECURSIVE Flatten(_)
Flatten(ss) == IF ss = <<>> THEN <<>> ELSE Head(ss) \o Flatten(Tail(ss))

\* what warpAffine may return for dsize = (width, height): an array of
\* height rows and width columns
Constant(dsize, v) ==
    [h |-> dsize[2], w |-> dsize[1], px |-> [p \in Pixels(dsize[2], dsize[1]) |-> v]]

WarpResults(family, dsize) ==
    IF family = "any"
    THEN {[h |-> dsize[2], w |-> dsize[1], px |-> f] :
             f \in [Pixels(dsize[2], dsize[1]) -> MaskValues]}
    ELSE {Constant(dsize, v) : v \in MaskValues}

\* the warped stacks: every mask of the first batch is any result of its
\* warp, the masks of a further batch are all positive
WarpedStacks(family, ws) ==
    {[b \in 1..Len(ws) |->
         IF b = 1 THEN first
         ELSE [c \in 1..Len(ws[b]) |-> Constant(ws[1][1].dsize, 1)]] :
        first \in [1..Len(ws[1]) -> WarpResults(family, ws[1][1].dsize)]}

\* lines 241-242
TransformMasks ==
    /\ pc = "transform_masks"
    /\ LET ws == transform_masks(masks, <<img.h, img.w>>,
                                 MatArg(TRUE, transform_matrix))
       IN  /\ calls' = calls \o Flatten(ws)
           /\ masks' \in WarpedStacks(stub, ws)
    /\ pc' = "composite"
    /\ UNCHANGED <<prompt, img, stub, transform_matrix, input_points,
                   input_labels, onnx_coord, onnx_label, padded,
                   decoder_inputs, result, error, shape_args, shape_res>>

\* lines 244-248
Composite ==
    /\ pc = "composite"
    /\ calls' = Append(calls, Call("composite"))
    /\ result' = composite(masks)
    /\ pc' = "returned"
    /\ UNCHANGED <<prompt, img, stub, transform_matrix, input_points,
                   input_labels, onnx_coord, onnx_label, padded,
                   decoder_inputs, masks, error, shape_args, shape_res>>

Next ==
    \/ ValidatePrompt
    \/ ComputeScale
    \/ WarpImage
    \/ Encode
    \/ GetInputPoints
    \/ Pad
    \/ ApplyCoords
    \/ AffinePoints
    \/ Decode
    \/ TransformMasks
    \/ Composite

-----------------------------------------------------------------------------
(* The calls explored                                                      *)

SeqsUpTo(S, n) == UNION {[1..k -> S] : k \in 0..n}

\* lists of valid marks, and lists with one malformed mark alone, before
\* or after a valid one
Prompts ==
    {DefaultPrompt}
    \cup {Array(s) : s \in SeqsUpTo(ValidMarks, MaxMarks)}
    \cup {Array(<<m>>) : m \in MalformedMarks}
    \cup {Array(<<v, m>>) : v \in {PointA, RectA}, m \in MalformedMarks}
    \cup {Array(<<m, v>>) : v \in {PointA, RectA}, m \in MalformedMarks}

Start(at, p, i, family, args) ==
    /\ pc = at
    /\ prompt = p
    /\ img = i
    /\ stub = family
    /\ calls = <<>>
    /\ transform_matrix = NoMatrix
    /\ input_points = ArrayOf(<<>>)
    /\ input_labels = <<>>
    /\ onnx_coord = <<>>
    /\ onnx_label = <<>>
    /\ padded = <<>>
    /\ decoder_inputs = [point_coords |-> <<>>, point_labels |-> <<>>,
                         orig_im_size |-> <<0, 0>>]
    /\ masks = <<>>
    /\ result = NoMask
    /\ error = "none"
    /\ shape_args = args
    /\ shape_res = <<0, 0>>

\* any prompt on a small image, zero sizes included
Init ==
    \E p \in Prompts : \E h \in 0..MaxDim : \E w \in 0..MaxDim :
        Start("validate", p, [h |-> h, w |-> w], "constant", <<0, 0, 0>>)

Spec == Init /\ [][Next]_vars

\* any warped mask stack, on the images of at most MaxPixels pixels
InitMask ==
    \E h \in 1..MaxPixels : \E w \in 1..MaxPixels :
        /\ h * w <= MaxPixels
        /\ Start("validate", Array(<<PointA>>), [h |-> h, w |-> w], "any", <<0, 0, 0>>)

SpecMask == InitMask /\ [][Next]_vars

\* the scale of the images up to MaxH by MaxW
InitGeom ==
    \E p \in {Array(<<PointA>>), Array(<<RectB, PointB>>)} :
    \E h \in 1..MaxH : \E w \in 1..MaxW :
        Start("validate", p, [h |-> h, w |-> w], "constant", <<0, 0, 0>>)

SpecGeom == InitGeom /\ [][Next]_vars

\* get_preprocess_shape on its own
InitShape ==
    \E h \in 1..MaxOld : \E w \in 1..MaxOld : \E l \in 1..MaxLong :
        Start("shape_call", DefaultPrompt, [h |-> 0, w |-> 0], "constant",
              <<h, w, l>>)

ShapeCall ==
    /\ pc = "shape_call"
    /\ shape_res' = get_preprocess_shape(shape_args[1], shape_args[2],
                                         shape_args[3])
    /\ pc' = "shape_done"
    /\ UNCHANGED <<prompt, img, stub, calls, transform_matrix, input_points,
                   input_labels, onnx_coord, onnx_label, padded,
                   decoder_inputs, masks, result, error, shape_args>>

NextShape == ShapeCall

SpecShape == InitShape /\ [][NextShape]_vars

-----------------------------------------------------------------------------
(* Properties                                                              *)

Ops == {calls[i].op : i \in 1..Len(calls)}

Count(op) == Cardinality({i \in 1..Len(calls) : calls[i].op = op})

\* C1: a malformed prompt makes predict fail with the schema validation
\* error before any geometry or inference call, and no mask is returned.
C1_MalformedRejectedFirst ==
    Malformed(prompt) =>
        /\ Ops \subseteq {"validate"}
        /\ result = NoMask
        /\ pc \in {"validate", "raised"}
        /\ pc = "raised" => error = "ValidationError"

\* C2: with an empty prompt list predict does not fail in the prompt
\* handling: get_input_points yields empty points and labels, the padding
\* supplies the point (0,0) with label -1, and the decoder gets exactly one
\* point and one label.
C2_EmptyPromptDecodes ==
    prompt = Array(<<>>) =>
        /\ error \in {"none", "ZeroDivisionError", "InferenceError"}
        /\ "get_input_points" \in Ops /\ pc # "raised" =>
              input_points.rows = <<>> /\ input_labels = <<>>
        /\ "decode" \in Ops =>
              /\ decoder_inputs.point_coords = << << <<Zero, Zero>> >> >>
              /\ decoder_inputs.point_labels = << <<FromInt(-1)>> >>

IsRect(m) == m.type = "rectangle"

\* the number of points the marks before the i-th contribute
Offset(items, i) == (i - 1) + Cardinality({j \in 1..(i - 1) : IsRect(items[j])})

\* C3: for a valid prompt list get_input_points emits points and labels in
\* input order: a point gives its data with its own label, a rectangle gives
\* in place (data[0], data[1]) with label 2 then (data[2], data[3]) with
\* label 3, whatever its label and corner order; both outputs have
\* #points + 2 * #rectangles entries.
C3_PointsInOrder ==
    (WellFormed(prompt) /\ "get_input_points" \in Ops) =>
        LET items == prompt.items
            n     == Len(items)
        IN  /\ Len(input_points.rows) = Offset(items, n + 1)
            /\ Len(input_labels) = Offset(items, n + 1)
            /\ \A i \in 1..n :
                  LET o == Offset(items, i)
                      d == items[i].data.items
                  IN  IF IsRect(items[i])
                      THEN /\ input_points.rows[o + 1] = <<d[1].v, d[2].v>>
                           /\ input_points.rows[o + 2] = <<d[3].v, d[4].v>>
                           /\ input_labels[o + 1] = 2
                           /\ input_labels[o + 2] = 3
                      ELSE /\ input_points.rows[o + 1] = <<d[1].v, d[2].v>>
                           /\ input_labels[o + 1] = items[i].label.v

C3_Witness ==
    /\ prompt = Array(<<RectB, PointA>>)
    /\ pc = "pad"
    /\ input_labels = <<2, 3, 1>>

\* C4: for a non-empty valid prompt list the points and labels of the
\* decoder are the encoded ones followed by one padding entry, the last,
\* with label -1 and, before the transforms, coordinate (0,0); both have the
\* encoded length plus one.
C4_PaddingAppendedOnce ==
    (WellFormed(prompt) /\ prompt.items # <<>>) =>
        LET n == Len(input_points.rows)
            expected(co) ==
                /\ Len(co) = 1
                /\ Len(co[1]) = n + 1
                /\ \A i \in 1..n :
                      co[1][i] = <<FromInt(input_points.rows[i][1]),
                                   FromInt(input_points.rows[i][2])>>
                /\ co[1][n + 1] = <<Zero, Zero>>
        IN  /\ pc = "apply_coords" => expected(onnx_coord)
            /\ "decode" \in Ops =>
                  /\ expected(padded)
                  /\ Len(decoder_inputs.point_coords[1]) = n + 1
                  /\ Len(decoder_inputs.point_labels[1]) = n + 1
                  /\ \A i \in 1..n : decoder_inputs.point_labels[1][i]
                                        = FromInt(input_labels[i])
                  /\ decoder_inputs.point_labels[1][n + 1] = FromInt(-1)

C4_Witness ==
    /\ prompt = Array(<<RectB, PointA>>)
    /\ pc = "transform_masks"
    /\ Len(decoder_inputs.point_labels[1]) = 4

Stage(op) ==
    CASE op = "validate" -> 1
      [] op = "warp_image" -> 2
      [] op = "encode" -> 3
      [] op \in {"get_input_points", "apply_coords", "matmul"} -> 4
      [] op = "decode" -> 5
      [] op = "warp_mask" -> 6
      [] op = "composite" -> 7

\* C7: the steps of one predict call run in the order validate, warp image,
\* encode, transform points, decode, inverse-warp masks, composite; encode
\* and decode run at most once; a failure ends the call at once (after a
\* failed encode no decode), and a mask is returned only after every step.
C7_StepsInOrder ==
    /\ calls # <<>> => Stage(calls[1].op) = 1
    /\ \A i \in 1..(Len(calls) - 1) :
          /\ Stage(calls[i].op) <= Stage(calls[i + 1].op)
          /\ Stage(calls[i + 1].op) <= Stage(calls[i].op) + 1
    /\ \A op \in {"validate", "warp_image", "encode", "get_input_points",
                  "apply_coords", "matmul", "decode", "composite"} :
          Count(op) <= 1
    /\ error # "none" => pc = "raised"
    /\ pc = "raised" => error # "none" /\ result = NoMask
    /\ result # NoMask =>
          /\ pc = "returned"
          /\ {Stage(op) : op \in Ops} = 1..7
    /\ pc = "returned" => result # NoMask

C7_Witness ==
    /\ pc = "raised"
    /\ error = "InferenceError"
    /\ calls[Len(calls)].op = "decode"
    /\ Count("encode") = 1
    /\ result = NoMask

\* C8: with an image of zero height or zero width predict fails before any
\* image warp, encode or decode call; it builds no transform and returns no
\* mask.
C8_ZeroSizeFailsFast ==
    (img.h = 0 \/ img.w = 0) =>
        /\ Ops \subseteq {"validate"}
        /\ transform_matrix = NoMatrix
        /\ result = NoMask
        /\ pc \in {"validate", "scale", "raised"}

C8_Witness ==
    /\ img.h = 0
    /\ img.w = 1
    /\ pc = "raised"
    /\ error = "ZeroDivisionError"

\* n * l / d rounded half-up, in integers
HalfUp(n, l, d) == (2 * n * l + d) \div (2 * d)

\* C5: get_preprocess_shape(h, w, L) returns the longer side as L and the
\* shorter side as its proportional value min(h, w) * L / max(h, w) rounded
\* half-up.
C5_ShapeRoundsHalfUp ==
    pc = "shape_done" =>
        LET h == shape_args[1]
            w == shape_args[2]
            l == shape_args[3]
        IN  /\ MaxOf(shape_res[1], shape_res[2]) = l
            /\ shape_res = <<HalfUp(h, l, MaxOf(h, w)), HalfUp(w, l, MaxOf(h, w))>>

Reverse(s) == [i \in 1..Len(s) |-> s[Len(s) + 1 - i]]

\* C6: the returned mask has the height and width of the input image; each
\* pixel is 255 if some channel of the first batch of the warped-back stack
\* is strictly positive there and 0 otherwise, whatever the order of the
\* channels and with a channel duplicated.
C6_MaskIsUnion ==
    pc = "returned" =>
        /\ result.h = img.h
        /\ result.w = img.w
        /\ DOMAIN result.px = Pixels(img.h, img.w)
        /\ \A p \in Pixels(img.h, img.w) :
              /\ result.px[p] \in {0, 255}
              /\ result.px[p] = 255 <=>
                    \E c \in 1..Len(masks[1]) : masks[1][c].px[p] > 0
        /\ composite(<<Reverse(masks[1])>>) = result
        /\ composite(<<masks[1] \o <<masks[1][1]>> >>) = result

C6_Witness ==
    /\ pc = "returned"
    /\ img = [h |-> 1, w |-> 2]
    /\ Len(masks) = 2
    /\ Len(masks[1]) = 2
    /\ masks[1][1].px[<<1, 1>>] = 1
    /\ masks[1][2].px[<<1, 1>>] = -1
    /\ masks[1][1].px[<<1, 2>>] = 0
    /\ masks[1][2].px[<<1, 2>>] = 0
    /\ result.px[<<1, 1>>] = 255
    /\ result.px[<<1, 2>>] = 0

Scale == transform_matrix[1][1]

\* every use of the transform: the image warp and the points get the
\* matrix itself, the mask warps its inverse
SameMatrixUsed ==
    \A i \in 1..Len(calls) :
        /\ calls[i].op \in {"warp_image", "matmul"} =>
              calls[i].M = MatArg(FALSE, transform_matrix)
        /\ calls[i].op = "warp_mask" =>
              calls[i].M = MatArg(TRUE, transform_matrix)
        /\ calls[i].op = "warp_image" =>
              calls[i].dsize = <<input_size[2], input_size[1]>>

\* v * 2^-52: one rounding of the division and one of the product
Tolerance(v) == Norm(1, BitsOf(v), -52)

AtMost(x, v) == DLeq(x, DAdd(FromInt(v), Tolerance(v)))

AtLeast(x, v) == DLeq(FromInt(v), DAdd(x, Tolerance(v)))

\* C9 as stated: the transform is diag(s, s, 1) with s > 0, the products
\* s * H and s * W (as Python computes them) are at most Hi and Wi and one
\* of them equals its canvas size; warp and points use the matrix, the
\* masks its inverse.
C9_ScaleFitsExactly ==
    transform_matrix # NoMatrix =>
        /\ transform_matrix = ScaleMatrix(Scale)
        /\ DLess(Zero, Scale)
        /\ DLeq(FMul(Scale, FromInt(img.h)), FromInt(input_size[1]))
        /\ DLeq(FMul(Scale, FromInt(img.w)), FromInt(input_size[2]))
        /\ \/ FMul(Scale, FromInt(img.h)) = FromInt(input_size[1])
           \/ FMul(Scale, FromInt(img.w)) = FromInt(input_size[2])
        /\ SameMatrixUsed

\* C9 amended: the same, with the fit and the touch holding to within the
\* rounding of float64 (a relative error of 2^-52).
C9_ScaleFitsToRounding ==
    transform_matrix # NoMatrix =>
        /\ transform_matrix = ScaleMatrix(Scale)
        /\ DLess(Zero, Scale)
        /\ AtMost(FMul(Scale, FromInt(img.h)), input_size[1])
        /\ AtMost(FMul(Scale, FromInt(img.w)), input_size[2])
        /\ \/ AtLeast(FMul(Scale, FromInt(img.h)), input_size[1])
           \/ AtLeast(FMul(Scale, FromInt(img.w)), input_size[2])
        /\ SameMatrixUsed

C9_Witness ==
    /\ img = [h |-> 39, w |-> 1]
    /\ pc = "returned"
    /\ DLess(FromInt(input_size[1]), FMul(Scale, FromInt(img.h)))
    /\ Count("warp_image") = 1
    /\ Count("matmul") = 1
    /\ Count("warp_mask") = 1

\* the shape apply_coords rescales to
NewShape == get_preprocess_shape(input_size[1], input_size[2], target_size)

\* v = s * x * n / d in exact arithmetic
ExactTwoStage(v, x, n, d) ==
    DMul(v, FromInt(d)) = DMul(DMul(Scale, x), FromInt(n))

\* v = s * x * (n / d) as float64 arithmetic gives it
DoubleTwoStage(v, x, n, d) == v = FMul(FMul(Scale, x), FDiv(n, d))

\* v = s * (x * (n / d)), each stage stored in single precision
SingleTwoStage(v, x, n, d) == v = F32(FMul(Scale, F32(FMul(x, FDiv(n, d)))))

PaddedPoints == PadCoord(input_points)[1]

\* C10 as stated: every point of the decoder is
\* (s * x * new_w / Wi, s * y * new_h / Hi), exactly or as float64
\* arithmetic gives it; apply_coords leaves its input as it was and the
\* padding point stays (0,0).
C10_PointsExactTwoStage ==
    "decode" \in Ops =>
        LET co == decoder_inputs.point_coords[1]
        IN  /\ Len(co) = Len(PaddedPoints)
            /\ \A i \in 1..Len(co) :
                  /\ \/ ExactTwoStage(co[i][1], PaddedPoints[i][1],
                                      NewShape[2], input_size[2])
                     \/ DoubleTwoStage(co[i][1], PaddedPoints[i][1],
                                       NewShape[2], input_size[2])
                  /\ \/ ExactTwoStage(co[i][2], PaddedPoints[i][2],
                                      NewShape[1], input_size[1])
                     \/ DoubleTwoStage(co[i][2], PaddedPoints[i][2],
                                       NewShape[1], input_size[1])
            /\ padded = PadCoord(input_points)
            /\ co[Len(co)] = <<Zero, Zero>>

\* C10 amended: every point of the decoder is the two-stage transform with
\* each stage's result rounded to single precision,
\* (f32(s * f32(x * new_w / Wi)), f32(s * f32(y * new_h / Hi))); apply_coords
\* leaves its input as it was and the padding point stays (0,0).
C10_PointsTwoStageSingle ==
    "decode" \in Ops =>
        LET co == decoder_inputs.point_coords[1]
        IN  /\ Len(co) = Len(PaddedPoints)
            /\ \A i \in 1..Len(co) :
                  /\ Len(co[i]) = 2
                  /\ SingleTwoStage(co[i][1], PaddedPoints[i][1],
                                    NewShape[2], input_size[2])
                  /\ SingleTwoStage(co[i][2], PaddedPoints[i][2],
                                    NewShape[1], input_size[1])
            /\ padded = PadCoord(input_points)
            /\ co[Len(co)] = <<Zero, Zero>>

C10_Witness ==
    /\ img = [h |-> 7, w |-> 1]
    /\ prompt = Array(<<PointA>>)
    /\ pc = "transform_masks"
    /\ decoder_inputs.point_coords[1][1][1] = F32(FDiv(input_size[1], 7))
    /\ decoder_inputs.point_coords[1][1][1] # FDiv(input_size[1], 7)

=============================================================================
